---------------------------- MODULE Spec2Model ----------------------------
(***************************************************************************)
(* The notebooks of the repository as state machines.                      *)
(*                                                                         *)
(*   SQLAlchemyDemo.ipynb        raw SQL through text(), the unsafe and    *)
(*                               the secured airport search                *)
(*   AsajadHusseinAbdulKadhom    the book search on a module-level session *)
(*   unnamed/part_000            the CRUD notebook (MetaData, insert)      *)
(*                                                                         *)
(* Text is a sequence of lexemes.  A lexeme is one punctuation character   *)
(* or one word (a maximal run of \w characters).  The fixed head of each   *)
(* query (everything up to and including the keyword LIKE) is one word.    *)
(***************************************************************************)
EXTENDS Integers, Sequences, FiniteSets, TLC

\* ------------------------------------------------------------------ bounds
\* longest string typed at input() / assigned to name
MaxLen == 3
\* longest value of a binding map in the generic conn.execute(text, map)
MaxBindLen == 1
\* connections the engine hands out in one run of the model
MaxConns == 3
\* longest statement appended in an injection, in words
MaxInjected == 2
\* rows in a result whose lines are printed
MaxRows == 2
\* how far the length of a printed value lies from the width of its column
MaxOver == 1
\* longest string typed at the prompt of the book search
MaxTitleLen == 4
\* highest id the model lets pythonServers hand out
MaxServerId == 8
\* highest id the model lets pythonUsers hand out
MaxUserId == 2

\* ------------------------------------------------------------------- state
\* SQLAlchemyDemo: the query cells
VARIABLES
    db,             \* the tables of the database
    cell,           \* the cell whose output is on display, "idle" for none
    name,           \* the Python variable name
    search_string,  \* the Python variable search_string
    statement,      \* the query object passed to conn.execute
    parameters,     \* the binding map passed with it
    sent,           \* the statement handed to the driver: text and parameters
    error,          \* the exception conn.execute raised, "none" for none
    statements,     \* the number of statements the server ran
    result,         \* the rows read from the result
    reran,          \* the cell has been run a second time, unchanged
    prev            \* the rows of its first run

queryVars == <<db, cell, name, search_string, statement, parameters, sent, error, statements, result, reran, prev>>

\* the engine and the with-block of a cell
VARIABLES
    acquired,       \* per connection: times it was taken from the engine
    released,       \* per connection: times it was given back
    checkedOut,     \* the connections that are out of the engine
    block,          \* the cell whose with-block is being run, "none" outside
    pc,             \* where the block is
    conn,           \* the connection the block was given
    tx,             \* the transaction of an engine.begin() block
    exc,            \* the exception on its way out of the block
    keys,           \* the column names of the result
    cursor,         \* the rows the result has not delivered yet
    delivered,      \* the rows the cell has read from the result
    out             \* the lines the cell has printed

engineVars == <<acquired, released, checkedOut>>

resultVars == <<keys, cursor, delivered, out>>

blockVars == <<block, pc, conn, tx, exc, resultVars>>

\* AsajadHusseinAbdulKadhom: the book search
VARIABLES
    books,          \* the tables Books, Stores and Inventory
    session,        \* the module-level session: its connection and state
    loopPc,         \* where the search loop is
    title_search,   \* the Python variable title_search
    printed,        \* the lines the running cell printed
    called,         \* the arguments search_books was called with since the prompt
    raised,         \* the exception raised inside the try block, "none" for none
    returned        \* what search_books returned to the loop

bookVars == <<books, session, loopPc, title_search, printed, called, raised, returned>>

\* the CRUD notebook (part_000): its kernel and its database
VARIABLES
    engine,         \* the Python variable engine is defined
    metadata_obj,   \* the Python variable metadata_obj: defined, and its tables
    publictest,     \* the database: its tables, their rows, their identities
    ran,            \* the cell run last, "none" for none
    failure,        \* the exception that ended it, "none" for none
    inserted_primary_key  \* result.inserted_primary_key[0], 0 for none

crudVars == <<engine, metadata_obj, publictest, ran, failure, inserted_primary_key>>

vars == <<queryVars, engineVars, blockVars, bookVars, crudVars>>

\* ------------------------------------------------------------ text values
\* the characters a value is made of: a letter in both cases, the quote,
\* the statement separator, the dash of the comment marker, the LIKE
\* wildcard, the colon
Chars == {"a", "A", "'", ";", "-", "%", ":"}

\* characters that are not \w
Punct == {"'", "%", "+", ":", ";", "-", "?", "\\"}

IsWord(x) == x \notin Punct

StringsUpTo(n) == UNION {[1..k -> Chars] : k \in 0..n}

\* the test string of the exercise: ';--
Payload == <<"'", ";", "-", "-">>

\* the statements an attacker appends: runs of words, the letters standing
\* for the keywords and names of a statement
Injected == UNION {[1..k -> {"a", "A"}] : k \in 1..MaxInjected}

\* the search strings of the injection example: '; <statement>; --
Injection(w) == <<"'", ";">> \o w \o <<";", "-", "-">>

Injections == {Injection(w) : w \in Injected}

\* what input() can return, what a cell can assign to name
Inputs == StringsUpTo(MaxLen) \cup {Payload} \cup Injections

BindValues == StringsUpTo(MaxBindLen)

\* v occurs in s as a contiguous run of equal characters
Contains(s, v) ==
    \E i \in 1..(Len(s) - Len(v) + 1) : SubSeq(s, i, i + Len(v) - 1) = v

\* --------------------------------------------------- the query templates
\* query = text("SELECT TOP 5 Id, FirstName, LastName, Email FROM USERS
\*               ORDER BY FirstName, LastName")
query == <<"SELECT_TOP5_USERS_ORDERED">>

\* text("Select * from Users where FirstName like '%' + :first_name + '%'")
parameterized_query ==
    <<"SELECT_USERS_LIKE", "'", "%", "'", "+", ":", "first_name", "+", "'", "%", "'">>

\* mutant: the wildcard after the parameter is left out
safe_query_open_start ==
    <<"SELECT_TOP10_AIRPORTS_LIKE", "'", "%", "'", "+", ":", "search_string">>

\* text("select top 10 IATA, ... from airports where [Location served]
\*       like '%' + :search_string + '%'")
safe_query ==
    <<"SELECT_TOP10_AIRPORTS_LIKE", "'", "%", "'", "+", ":", "search_string", "+", "'", "%", "'">>

\* f"""select top 10 ... where [Location served] like '%{search_string}%'"""
unsafe_query(s) ==
    <<"SELECT_TOP10_AIRPORTS_LIKE", "'", "%">> \o s \o <<"%", "'">>

\* "Select * from Users where FirstName like '%" + name + "'%'"
unparameterized_query(n) ==
    <<"SELECT_USERS_LIKE", "'", "%">> \o n \o <<"'", "%", "'">>

Templates == {query, parameterized_query, safe_query}

\* ------------------------------------------- text(): the bound parameters
\* SQLAlchemy finds bound parameters with (?<![:\w\x5c]):(\w+)(?!:) over the
\* whole text: a colon, not preceded by a colon, a word character or a
\* backslash, followed by a word that is not followed by a colon.
IsBindAt(T, i) ==
    /\ i + 1 <= Len(T)
    /\ T[i] = ":"
    /\ IsWord(T[i + 1])
    /\ (i > 1 => (T[i - 1] # ":" /\ T[i - 1] # "\\" /\ ~IsWord(T[i - 1])))
    /\ (i + 2 <= Len(T) => T[i + 2] # ":")

\* the names of the bound parameters, in the order they occur
RECURSIVE BindSeqFrom(_, _)
BindSeqFrom(T, i) ==
    IF i > Len(T) THEN <<>>
    ELSE IF IsBindAt(T, i) THEN <<T[i + 1]>> \o BindSeqFrom(T, i + 2)
    ELSE BindSeqFrom(T, i + 1)

BindSeq(T) == BindSeqFrom(T, 1)

Range(f) == {f[i] : i \in DOMAIN f}

BindNames(T) == Range(BindSeq(T))

\* the statement text compiled for pyodbc (paramstyle qmark): every bound
\* parameter becomes a question mark, the rest is left as written
RECURSIVE CompileFrom(_, _)
CompileFrom(T, i) ==
    IF i > Len(T) THEN <<>>
    ELSE IF IsBindAt(T, i) THEN <<"?">> \o CompileFrom(T, i + 2)
    ELSE <<T[i]>> \o CompileFrom(T, i + 1)

Compile(T) == CompileFrom(T, 1)

\* ---------------------------------------- conn.execute(text, parameters)
NoStmt == [text |-> <<>>, params |-> <<>>]

\* the binding maps of the generic call: any subset of the names the
\* notebook uses, any values
BindKeys == {"first_name", "search_string"}

BindingMaps == UNION {[D -> BindValues] : D \in SUBSET BindKeys}

\* mutant: the value is escaped (every quote doubled) before it is handed over
RECURSIVE EscapedParam(_)
EscapedParam(v) ==
    IF v = <<>> THEN <<>>
    ELSE IF Head(v) = "'" THEN <<"'", "'">> \o EscapedParam(Tail(v))
    ELSE <<Head(v)>> \o EscapedParam(Tail(v))

\* the value handed to the driver for one bound parameter
DriverParam(v) == v

\* the bound parameters the call has no value for.  Names of the map that
\* the text does not use are ignored.
MissingBinds(T, B) == BindNames(T) \ DOMAIN B

\* conn.execute(T, B): what reaches the driver, or the error raised before
\* anything is sent ("A value is required for bind parameter ...")
\* the values of the bound parameters in the order of their markers
Positional(names, B) == [i \in 1..Len(names) |-> DriverParam(B[names[i]])]

Execute(T, B) ==
    IF MissingBinds(T, B) # {}
    THEN [error |-> "StatementError", stmt |-> NoStmt]
    ELSE [error |-> "none",
          stmt  |-> [text |-> Compile(T), params |-> Positional(BindSeq(T), B)]]


\* ------------------------------------------------- the database: parsing
\* a string literal whose opening quote is at i - 1: its characters up to
\* the closing quote ('' is a quote inside the literal)
Prepend(c, r) == [r EXCEPT !.chars = <<c>> \o r.chars]

RECURSIVE LitFrom(_, _)
LitFrom(t, i) ==
    IF i > Len(t) THEN [ok |-> FALSE, chars |-> <<>>, next |-> i]
    ELSE IF t[i] = "'"
         THEN IF i + 1 <= Len(t) /\ t[i + 1] = "'"
              THEN Prepend("'", LitFrom(t, i + 2))
              ELSE [ok |-> TRUE, chars |-> <<>>, next |-> i + 1]
    ELSE Prepend(t[i], LitFrom(t, i + 1))

\* the operand of LIKE: term (+ term)*, a term a string literal or a
\* parameter marker
NoTerm(i) == [ok |-> FALSE, kind |-> "none", chars |-> <<>>, next |-> i]

LitTerm(l) == [ok |-> l.ok, kind |-> "lit", chars |-> l.chars, next |-> l.next]

TermAt(t, i) ==
    IF i > Len(t) THEN NoTerm(i)
    ELSE IF t[i] = "?" THEN [ok |-> TRUE, kind |-> "param", chars |-> <<>>, next |-> i + 1]
    ELSE IF t[i] = "'" THEN LitTerm(LitFrom(t, i + 1))
    ELSE NoTerm(i)

TermOf(term) == <<[kind |-> term.kind, chars |-> term.chars]>>

ExprJoin(term, r) == [ok |-> r.ok, terms |-> TermOf(term) \o r.terms, next |-> r.next]

RECURSIVE ExprFrom(_, _)
RECURSIVE ExprAfter(_, _)
ExprAfter(t, term) ==
    IF ~term.ok THEN [ok |-> FALSE, terms |-> <<>>, next |-> term.next]
    ELSE IF term.next <= Len(t) /\ t[term.next] = "+"
         THEN ExprJoin(term, ExprFrom(t, term.next + 1))
    ELSE [ok |-> TRUE, terms |-> TermOf(term), next |-> term.next]

ExprFrom(t, i) == ExprAfter(t, TermAt(t, i))

\* the first position at or after i that holds no word
RECURSIVE WordsEnd(_, _)
WordsEnd(t, i) == IF i <= Len(t) /\ IsWord(t[i]) THEN WordsEnd(t, i + 1) ELSE i

\* what follows the SELECT: separators, further statements (runs of words),
\* a -- comment that hides the rest of the line; anything else is a syntax
\* error.  injected counts the further statements.
OneMore(r) == [ok |-> r.ok, injected |-> r.injected + 1]

RECURSIVE TailFrom(_, _)
TailFrom(t, i) ==
    IF i > Len(t) THEN [ok |-> TRUE, injected |-> 0]
    ELSE IF t[i] = "-" /\ i + 1 <= Len(t) /\ t[i + 1] = "-" THEN [ok |-> TRUE, injected |-> 0]
    ELSE IF t[i] = ";" THEN TailFrom(t, i + 1)
    ELSE IF IsWord(t[i]) THEN OneMore(TailFrom(t, WordsEnd(t, i)))
    ELSE [ok |-> FALSE, injected |-> 0]

LikeHeads == {"SELECT_USERS_LIKE", "SELECT_TOP10_AIRPORTS_LIKE"}

ParseError == [ok |-> FALSE, head |-> "", terms |-> <<>>, injected |-> 0]

\* the batch the server compiles from the text it receives
Batch(head, terms, r) ==
    IF r.ok THEN [ok |-> TRUE, head |-> head, terms |-> terms, injected |-> r.injected]
    ELSE ParseError

LikeBatch(t, e) == IF e.ok THEN Batch(t[1], e.terms, TailFrom(t, e.next)) ELSE ParseError

Parse(t) ==
    IF t = <<>> THEN ParseError
    ELSE IF t[1] = "SELECT_TOP5_USERS_ORDERED" THEN Batch(t[1], <<>>, TailFrom(t, 2))
    ELSE IF t[1] \in LikeHeads THEN LikeBatch(t, ExprFrom(t, 2))
    ELSE ParseError

\* the logical structure of a batch: which SELECT, the kinds of the terms of
\* its LIKE operand, the number of statements
Shape(p) ==
    [ok         |-> p.ok,
     head       |-> p.head,
     kinds      |-> [i \in 1..Len(p.terms) |-> p.terms[i].kind],
     statements |-> IF p.ok THEN 1 + p.injected ELSE 0]

\* ------------------------------------------------ the database: matching
\* the lower-case form of a letter; every other character is left alone
LowerOf(c) ==
    CASE c = "A" -> "a" [] c = "E" -> "e" [] c = "X" -> "x"
      [] c = "I" -> "i" [] c = "T" -> "t" [] OTHER -> c

\* str.lower(), lower()
LowerStr(s) == [i \in 1..Len(s) |-> LowerOf(s[i])]

\* the collation of the database compares letters without regard to case
\* ("stock" finds "Stockholm" and "Rostock" in the recorded output)
Fold(c) == LowerOf(c)

\* s LIKE p: % in the pattern stands for any run of characters, every other
\* character for itself under the collation
RECURSIVE Like(_, _)
Like(s, p) ==
    IF p = <<>> THEN s = <<>>
    ELSE IF Head(p) = "%"
         THEN Like(s, Tail(p)) \/ (s # <<>> /\ Like(Tail(s), p))
    ELSE s # <<>> /\ Fold(Head(s)) = Fold(Head(p)) /\ Like(Tail(s), Tail(p))

\* the value of the LIKE operand: the terms concatenated, the k-th marker
\* replaced by the k-th parameter
RECURSIVE PatternFrom(_, _, _)
PatternFrom(terms, params, k) ==
    IF terms = <<>> THEN <<>>
    ELSE IF Head(terms).kind = "param"
         THEN params[k] \o PatternFrom(Tail(terms), params, k + 1)
    ELSE Head(terms).chars \o PatternFrom(Tail(terms), params, k)

ParamCount(terms) == Cardinality({i \in 1..Len(terms) : terms[i].kind = "param"})

\* -------------------------------------------------- the database: tables
\* TOP 5 of query, top 10 of the airport searches
Top5 == 5
Top10 == 10
\* rows of the larger tables: more than the TOP limits
ManyUsers == 6
ManyAirports == 11

UserRow(i, first, last) == [Id |-> i, FirstName |-> first, LastName |-> last]

\* users with distinct names, one of them named ';--
FewUsers ==
    << UserRow(1, <<"a", "-">>, <<"a">>),
       UserRow(2, Payload, <<"a">>),
       UserRow(3, <<"A">>, <<"-">>) >>

\* more users than TOP 5 takes; every second one has the name of the one
\* before it
NamesakeUsers ==
    [i \in 1..ManyUsers |->
        UserRow(i, IF i % 4 \in {1, 2} THEN <<"a">> ELSE <<"A", ";">>, <<"a">>)]

AirportRow(i, loc) == [IATA |-> i, location |-> loc]

FewAirports ==
    << AirportRow(1, <<"A", "a">>),
       AirportRow(2, <<"-", "-">>),
       AirportRow(3, <<"a", ";", "%">>) >>

\* an airport whose location contains ';--
QuotedAirports ==
    << AirportRow(1, <<"a">> \o Payload),
       AirportRow(2, <<"'", ";">>) >>

\* more airports than top 10 takes
ManyAirportRows ==
    [i \in 1..ManyAirports |->
        AirportRow(i, IF i % 3 = 0 THEN <<"-", "A">> ELSE <<"a", "'">>)]

\* the databases the notebook is run against
Databases ==
    { [users |-> <<>>,          airports |-> <<>>],
      [users |-> FewUsers,      airports |-> FewAirports],
      [users |-> FewUsers,      airports |-> QuotedAirports],
      [users |-> NamesakeUsers, airports |-> ManyAirportRows] }

\* ------------------------------------------------ the database: ordering
\* the rank of a character in the collation
Rank(c) ==
    CASE c = "'" -> 1 [] c = "-" -> 2 [] c = ";" -> 3 [] c = "%" -> 4 [] OTHER -> 5

RECURSIVE StrLess(_, _)
StrLess(x, y) ==
    IF y = <<>> THEN FALSE
    ELSE IF x = <<>> THEN TRUE
    ELSE IF Rank(Head(x)) # Rank(Head(y)) THEN Rank(Head(x)) < Rank(Head(y))
    ELSE StrLess(Tail(x), Tail(y))

StrSame(x, y) == ~StrLess(x, y) /\ ~StrLess(y, x)

\* ORDER BY FirstName, LastName
UserLess(r, q) ==
    \/ StrLess(r.FirstName, q.FirstName)
    \/ StrSame(r.FirstName, q.FirstName) /\ StrLess(r.LastName, q.LastName)

\* rows that compare equal keep the order the scan delivered them in
RECURSIVE InsertUser(_, _)
InsertUser(sorted, r) ==
    IF sorted = <<>> THEN <<r>>
    ELSE IF UserLess(r, Head(sorted)) THEN <<r>> \o sorted
    ELSE <<Head(sorted)>> \o InsertUser(Tail(sorted), r)

RECURSIVE OrderUsers(_)
OrderUsers(rows) ==
    IF rows = <<>> THEN <<>>
    ELSE InsertUser(OrderUsers(SubSeq(rows, 1, Len(rows) - 1)), rows[Len(rows)])

\* the order in which the server reads a table is its own choice: SQL fixes
\* the order of a result only as far as ORDER BY does.  The model lets the
\* server read a table forwards or backwards.
Scans == {"forward", "backward"}

Scan(table, scan) ==
    IF scan = "forward" THEN table
    ELSE [i \in 1..Len(table) |-> table[Len(table) + 1 - i]]

RECURSIVE Filter(_, _, _)
Filter(rows, column, pattern) ==
    IF rows = <<>> THEN <<>>
    ELSE IF Like(Head(rows)[column], pattern)
         THEN <<Head(rows)>> \o Filter(Tail(rows), column, pattern)
    ELSE Filter(Tail(rows), column, pattern)

Top(n, rows) == SubSeq(rows, 1, IF Len(rows) < n THEN Len(rows) ELSE n)

\* ------------------------------------------------- the database: running
\* what the server does with a statement: a syntax error (nothing runs), or
\* the rows of the SELECT and the number of statements run
Select(head, pattern, data, scan) ==
    CASE head = "SELECT_TOP5_USERS_ORDERED" ->
            Top(Top5, OrderUsers(Scan(data.users, scan)))
      [] head = "SELECT_USERS_LIKE" ->
            Filter(Scan(data.users, scan), "FirstName", pattern)
      [] head = "SELECT_TOP10_AIRPORTS_LIKE" ->
            Top(Top10, Filter(Scan(data.airports, scan), "location", pattern))

RunBatch(p, params, data, scan) ==
    IF ~p.ok \/ ParamCount(p.terms) # Len(params)
    THEN [error |-> "ProgrammingError", rows |-> <<>>, statements |-> 0]
    ELSE [error      |-> "none",
          rows       |-> Select(p.head, PatternFrom(p.terms, params, 1), data, scan),
          statements |-> 1 + p.injected]

DbRun(stmt, data, scan) == RunBatch(Parse(stmt.text), stmt.params, data, scan)

\* ------------------------------------------- SQLAlchemyDemo: the cells

NoParams == <<>>

\* the cells that run query: conn.execute(query)
QueryCall == [T |-> query, B |-> NoParams]

\* mutant: the name is written into the text between the wildcards
ParameterizedCallInterpolated(n) ==
    [T |-> <<"SELECT_USERS_LIKE", "'", "%">> \o n \o <<"%", "'">>, B |-> NoParams]

\* conn.execute(parameterized_query, {"first_name": name})
ParameterizedCall(n) == [T |-> parameterized_query, B |-> [k \in {"first_name"} |-> n]]

\* conn.execute(unparameterized_query)
UnparameterizedCall(n) == [T |-> unparameterized_query(n), B |-> NoParams]

\* mutant: the quotes of the search string are doubled before it is put
\* into the text
UnsafeCallEscaped(s) == [T |-> unsafe_query(EscapedParam(s)), B |-> NoParams]

\* conn.execute(text(unsafe_query))
UnsafeCall(s) == [T |-> unsafe_query(s), B |-> NoParams]

\* mutant: the secured search builds its text the way the unsafe one does
SafeCallInterpolated(s) == [T |-> unsafe_query(s), B |-> NoParams]

\* conn.execute(safe_query, {"search_string": search_string})
SafeCall(s) == [T |-> safe_query, B |-> [k \in {"search_string"} |-> s]]

CellCall(c, n, s) ==
    CASE c \in {"fetchall", "iterate"} -> QueryCall
      [] c = "parameterized"           -> ParameterizedCall(n)
      [] c = "unparameterized"         -> UnparameterizedCall(n)
      [] c = "unsafe"                  -> UnsafeCall(s)
      [] c = "safe"                    -> SafeCall(s)

\* with engine.connect() as conn: result = conn.execute(...); the rows are
\* read inside the block
Raised(x) == [sent |-> x.stmt, error |-> x.error, statements |-> 0, rows |-> <<>>]

Answered(x, r) ==
    [sent |-> x.stmt, error |-> r.error, statements |-> r.statements, rows |-> r.rows]

Submit(x, data, scan) ==
    IF x.error # "none" THEN Raised(x) ELSE Answered(x, DbRun(x.stmt, data, scan))

Outcome(call, data, scan) == Submit(Execute(call.T, call.B), data, scan)

\* a cell run from its first line to its last: the with-block takes its
\* connection and hands it back within the step, so the engine is as it was
\* (BlockNext follows the same block line by line)
Show(c, n, s, call, o) ==
    /\ cell' = c
    /\ name' = n
    /\ search_string' = s
    /\ statement' = call.T
    /\ parameters' = call.B
    /\ sent' = o.sent
    /\ error' = o.error
    /\ statements' = o.statements
    /\ result' = o.rows
    /\ UNCHANGED <<db, engineVars, blockVars, bookVars, crudVars>>

Call(c, n, s, call, scan) == Show(c, n, s, call, Outcome(call, db, scan))

Run(c, n, s, scan) == Call(c, n, s, CellCall(c, n, s), scan)

FetchAllCell ==
    /\ cell = "idle"
    /\ \E scan \in Scans : Run("fetchall", <<>>, <<>>, scan)
    /\ UNCHANGED <<reran, prev>>

IterateCell ==
    /\ cell = "idle"
    /\ \E scan \in Scans : Run("iterate", <<>>, <<>>, scan)
    /\ UNCHANGED <<reran, prev>>

ParameterizedCell ==
    /\ cell = "idle"
    /\ \E n \in Inputs, scan \in Scans : Run("parameterized", n, <<>>, scan)
    /\ UNCHANGED <<reran, prev>>

UnparameterizedCell ==
    /\ cell = "idle"
    /\ \E n \in Inputs, scan \in Scans : Run("unparameterized", n, <<>>, scan)
    /\ UNCHANGED <<reran, prev>>

UnsafeSearchCell ==
    /\ cell = "idle"
    /\ \E s \in Inputs, scan \in Scans : Run("unsafe", <<>>, s, scan)
    /\ UNCHANGED <<reran, prev>>

SafeSearchCell ==
    /\ cell = "idle"
    /\ \E s \in Inputs, scan \in Scans : Run("safe", <<>>, s, scan)
    /\ UNCHANGED <<reran, prev>>

\* the same cell is run again: same query object, same binding, same data
RunAgain ==
    /\ cell # "idle"
    /\ ~reran
    /\ reran' = TRUE
    /\ prev' = result
    /\ \E scan \in Scans :
          Call(cell, name, search_string, [T |-> statement, B |-> parameters], scan)

\* the output is cleared before another cell is run
ClearOutput ==
    /\ cell # "idle"
    /\ cell' = "idle"
    /\ name' = <<>>
    /\ search_string' = <<>>
    /\ statement' = <<>>
    /\ parameters' = NoParams
    /\ sent' = NoStmt
    /\ error' = "none"
    /\ statements' = 0
    /\ result' = <<>>
    /\ reran' = FALSE
    /\ prev' = <<>>
    /\ UNCHANGED <<db, engineVars, blockVars, bookVars, crudVars>>

QueryInit ==
    /\ db \in Databases
    /\ cell = "idle"
    /\ name = <<>>
    /\ search_string = <<>>
    /\ statement = <<>>
    /\ parameters = NoParams
    /\ sent = NoStmt
    /\ error = "none"
    /\ statements = 0
    /\ result = <<>>
    /\ reran = FALSE
    /\ prev = <<>>

QueryNext ==
    \/ FetchAllCell
    \/ IterateCell
    \/ ParameterizedCell
    \/ UnparameterizedCell
    \/ UnsafeSearchCell
    \/ SafeSearchCell
    \/ RunAgain
    \/ ClearOutput

\* ------------------------------------- conn.execute with any binding map
\* a cell that passes any of the notebook's query objects with any map
ExecuteCell ==
    /\ cell = "idle"
    /\ \E T \in Templates, B \in BindingMaps, scan \in Scans :
          Call("execute", <<>>, <<>>, [T |-> T, B |-> B], scan)
    /\ UNCHANGED <<reran, prev>>

BindNext ==
    \/ ExecuteCell
    \/ ClearOutput

\* ------------------------------------------- results and their printing
\* n times the character c
Word(c, n) == [i \in 1..n |-> c]

LowerCase == <<"a", "b", "c", "d", "e", "f", "g", "h", "i", "j", "k", "l", "m",
               "n", "o", "p", "q", "r", "s", "t", "u", "v", "w", "x", "y", "z">>

UpperCase == <<"A", "B", "C", "D", "E", "F", "G", "H", "I", "J", "K", "L", "M",
               "N", "O", "P", "Q", "R", "S", "T", "U", "V", "W", "X", "Y", "Z">>

UpperOf(c) ==
    IF \E i \in DOMAIN LowerCase : LowerCase[i] = c
    THEN UpperCase[CHOOSE i \in DOMAIN LowerCase : LowerCase[i] = c]
    ELSE c

\* str.upper()
Upper(s) == [i \in 1..Len(s) |-> UpperOf(s[i])]

Digits == <<"0", "1", "2", "3", "4", "5", "6", "7", "8", "9">>

\* str(n) of an integer n >= 0: its decimal digits
RECURSIVE StrOfInt(_)
StrOfInt(n) ==
    IF n < 10 THEN <<Digits[n + 1]>> ELSE Append(StrOfInt(n \div 10), Digits[(n % 10) + 1])

\* the values of the fields: strings and integers
Text(chars) == [type |-> "str", v |-> chars]
Number(n) == [type |-> "int", v |-> n]

\* str(field): a string is itself
Str(f) == IF f.type = "int" THEN StrOfInt(f.v) ELSE f.v

\* mutant: the value is cut to the width when it is longer
LjustCut(s, W) ==
    IF Len(s) >= W THEN SubSeq(s, 1, W) ELSE s \o Word(" ", W - Len(s))

\* str.ljust(W)
Ljust(s, W) == IF Len(s) >= W THEN s ELSE s \o Word(" ", W - Len(s))

\* the widths the cells pad to
FieldWidth == 20
IataWidth == 8
NameWidth == 50

\* the columns of the results, in the order of the select list
UserColumns ==
    << <<"I", "d">>,
       <<"F", "i", "r", "s", "t", "N", "a", "m", "e">>,
       <<"L", "a", "s", "t", "N", "a", "m", "e">>,
       <<"E", "m", "a", "i", "l">> >>

PythonUserColumns ==
    << <<"i", "d">>,
       <<"u", "s", "e", "r", "n", "a", "m", "e">>,
       <<"p", "a", "s", "s", "w", "o", "r", "d">>,
       <<"s", "e", "r", "v", "e", "r", "_", "i", "d">> >>

AirportColumns ==
    << <<"I", "A", "T", "A">>,
       <<"n", "a", "m", "e">>,
       <<"l", "o", "c", "a", "t", "i", "o", "n">> >>

\* the cells that print what a query returns
UserCells == {"fetchall", "iterate", "columns"}

Columns(c) ==
    IF c \in UserCells THEN UserColumns
    ELSE IF c = "fetch_data" THEN PythonUserColumns
    ELSE AirportColumns

\* the lengths of the values in the rows: none, and around the widths
Around(W) == {n \in (W - MaxOver)..(W + MaxOver) : n >= 0}

Lengths(c) ==
    {0} \cup (IF c = "safe" THEN Around(IataWidth) \cup Around(NameWidth) ELSE Around(FieldWidth))

\* a row as the driver delivers it: the values in the order of the columns
RowOf(c, n) ==
    IF c \in UserCells
    THEN <<Text(Word("7", n)), Text(Word("f", n)), Text(Word("l", n)), Text(Word("m", n))>>
    ELSE IF c = "fetch_data"
    THEN <<Number(n), Text(Word("u", n)), Text(Word("p", n)), Number((n % 4) + 1)>>
    ELSE <<Text(Word("I", n)), Text(Word("n", n)), Text(Word("c", n))>>

SomeRows(c) == {RowOf(c, n) : n \in Lengths(c)}

\* what the server can answer to the query of cell c
ResultSets(c) == UNION {[1..k -> SomeRows(c)] : k \in 0..MaxRows}

\* row.<name>: the field of the column called so
ByName(row, columns, column) == row[CHOOSE i \in DOMAIN columns : columns[i] = column]

\* mutant: the header is printed last column first
HeaderLineReversed(columns) ==
    [kind  |-> "header",
     cells |-> [i \in DOMAIN columns |->
                   Ljust(Upper(columns[Len(columns) + 1 - i]), FieldWidth)]]

\* for column_name in result.keys(): print(column_name.upper().ljust(20), end=...)
HeaderLine(columns) ==
    [kind |-> "header", cells |-> [i \in DOMAIN columns |-> Ljust(Upper(columns[i]), FieldWidth)]]

\* for field in row: print(field.ljust(20), end='') in the query notebook,
\* whose fields are strings; print(str(field).ljust(20), end=' ') in the
\* CRUD notebook
FieldsLine(row) ==
    [kind |-> "row", cells |-> [i \in DOMAIN row |-> Ljust(Str(row[i]), FieldWidth)]]

\* print(f"{row.FirstName} {row.LastName}")
NameLine(row) ==
    [kind  |-> "row",
     cells |-> <<ByName(row, UserColumns, UserColumns[2]).v,
                 ByName(row, UserColumns, UserColumns[3]).v>>]

\* print(f"{'IATA'.ljust(8)}{'Airport name'.ljust(50)}{'Location'}")
AirportHeader ==
    [kind  |-> "header",
     cells |-> <<Ljust(<<"I", "A", "T", "A">>, IataWidth),
                 Ljust(<<"A", "i", "r", "p", "o", "r", "t", " ", "n", "a", "m", "e">>, NameWidth),
                 <<"L", "o", "c", "a", "t", "i", "o", "n">> >>]

\* print(f"{str(airport.IATA).ljust(8)}{str(airport.name).ljust(50)}{airport.location}")
AirportLine(row) ==
    [kind  |-> "row",
     cells |-> <<Ljust(Str(ByName(row, AirportColumns, AirportColumns[1])), IataWidth),
                 Ljust(Str(ByName(row, AirportColumns, AirportColumns[2])), NameWidth),
                 ByName(row, AirportColumns, AirportColumns[3]).v>>]

\* print(result.fetchall())
ListLine(rows) == [kind |-> "list", cells |-> rows]

\* the line a cell prints for one row
RowLine(c, row) ==
    IF c = "iterate" THEN NameLine(row)
    ELSE IF c = "safe" THEN AirportLine(row)
    ELSE FieldsLine(row)

\* ------------------------------------------- the engine and with-blocks

ConnIds == 1..MaxConns

\* the connections handed out so far
Used == {c \in ConnIds : acquired[c] > 0}

\* engine.connect(): a connection nobody has had yet
Fresh == Cardinality(Used) + 1

Acquire(c) ==
    /\ acquired' = [acquired EXCEPT ![c] = @ + 1]
    /\ checkedOut' = checkedOut \cup {c}
    /\ UNCHANGED released

\* mutant: the connection is closed at the end of the body, not by the with
\* statement, so an exception skips the close
CloseUnlessRaised(c, e) ==
    IF e = "none"
    THEN /\ released' = [released EXCEPT ![c] = @ + 1]
         /\ checkedOut' = checkedOut \ {c}
         /\ UNCHANGED acquired
    ELSE UNCHANGED engineVars

\* Connection.__exit__: close() gives the connection back, whatever e is
Close(c, e) ==
    /\ released' = [released EXCEPT ![c] = @ + 1]
    /\ checkedOut' = checkedOut \ {c}
    /\ UNCHANGED acquired

\* the cells with a with-block: engine.connect() in the query cells,
\* engine.begin() in the insert cells of the CRUD notebook
ConnectCells == {"fetchall", "iterate", "columns", "safe", "fetch_data"}
BeginCells == {"insert_servers", "insert_user"}

\* the cells that print a header line before the rows
HeaderCells == {"columns", "fetch_data", "safe"}

\* the cells that loop over the result
IteratingCells == {"iterate", "columns", "fetch_data", "safe"}

\* the cells that read the result after conn.execute
ReadingCells == IteratingCells \cup {"fetchall", "insert_user"}

NoResult ==
    /\ keys' = <<>>
    /\ cursor' = <<>>
    /\ delivered' = <<>>
    /\ out' = <<>>

\* with engine.connect() as conn: / with engine.begin() as conn:
EnterBlock ==
    /\ pc = "outside"
    /\ Fresh \in ConnIds
    /\ \E c \in ConnectCells \cup BeginCells :
          /\ block' = c
          /\ tx' = IF c \in BeginCells THEN "active" ELSE "none"
    /\ conn' = Fresh
    /\ Acquire(Fresh)
    /\ pc' = "entered"
    /\ exc' = "none"
    /\ NoResult
    /\ UNCHANGED <<queryVars, bookVars, crudVars>>

\* engine.connect() raises: the block is not entered, no connection is taken
ConnectFails ==
    /\ pc = "outside"
    /\ \E c \in ConnectCells \cup BeginCells : block' = c
    /\ exc' = "connect"
    /\ tx' = "none"
    /\ NoResult
    /\ UNCHANGED <<pc, conn, engineVars, queryVars, bookVars, crudVars>>

\* mutant: the connection is given back as soon as the statement has run
\* and the result is handed out detached
ExecuteReturnsClosed ==
    /\ pc = "entered"
    /\ block \in ReadingCells \ {"insert_user"}
    /\ \E rs \in ResultSets(block) : cursor' = rs
    /\ keys' = Columns(block)
    /\ pc' = IF block \in HeaderCells THEN "executed" ELSE "rows"
    /\ Close(conn, "none")
    /\ UNCHANGED <<block, conn, tx, exc, delivered, out, queryVars, bookVars, crudVars>>

\* result = conn.execute(...) returns: the result holds the column names and
\* the rows the server found, none of them read yet
ExecuteReturns ==
    /\ pc = "entered"
    /\ IF block \in ReadingCells \ {"insert_user"}
       THEN /\ \E rs \in ResultSets(block) : cursor' = rs
            /\ keys' = Columns(block)
            /\ pc' = IF block \in HeaderCells THEN "executed" ELSE "rows"
       ELSE /\ UNCHANGED <<keys, cursor>>
            /\ pc' = IF block \in ReadingCells THEN "executed" ELSE "leaving"
    /\ UNCHANGED <<block, conn, tx, exc, delivered, out, engineVars, queryVars, bookVars, crudVars>>

\* conn.execute(...) raises
ExecuteRaises ==
    /\ pc = "entered"
    /\ exc' = "execute"
    /\ pc' = "leaving"
    /\ UNCHANGED <<block, conn, tx, resultVars, engineVars, queryVars, bookVars, crudVars>>

\* mutant: reading the column names fetches the first row
AfterKeysFetched(rows) == IF rows = <<>> THEN rows ELSE Tail(rows)

\* the rows left in the result after result.keys()
AfterKeys(rows) == rows

\* the header: the column names of the result, or the fixed titles of the
\* airport search
PrintHeader ==
    /\ pc = "executed"
    /\ block \in HeaderCells
    /\ out' = Append(out, IF block = "safe" THEN AirportHeader ELSE HeaderLine(keys))
    /\ cursor' = IF block = "safe" THEN cursor ELSE AfterKeys(cursor)
    /\ pc' = "rows"
    /\ UNCHANGED <<block, conn, tx, exc, keys, delivered, engineVars, queryVars, bookVars, crudVars>>

\* print(result.inserted_primary_key)
ReadReturns ==
    /\ pc = "executed"
    /\ block \notin HeaderCells
    /\ pc' = "leaving"
    /\ UNCHANGED <<block, conn, tx, exc, resultVars, engineVars, queryVars, bookVars, crudVars>>

\* print(result); print(type(result)); print(result.fetchall()): every row
\* the result still holds, at once
FetchAll ==
    /\ pc = "rows"
    /\ block = "fetchall"
    /\ delivered' = delivered \o cursor
    /\ cursor' = <<>>
    /\ out' = out \o <<[kind |-> "result"], [kind |-> "type"], ListLine(cursor)>>
    /\ pc' = "leaving"
    /\ UNCHANGED <<block, conn, tx, exc, keys, engineVars, queryVars, bookVars, crudVars>>

\* for row in result: the next row, and the line printed for it
NextRow ==
    /\ pc = "rows"
    /\ block \in IteratingCells
    /\ cursor # <<>>
    /\ delivered' = Append(delivered, Head(cursor))
    /\ cursor' = Tail(cursor)
    /\ out' = Append(out, RowLine(block, Head(cursor)))
    /\ UNCHANGED <<block, pc, conn, tx, exc, keys, engineVars, queryVars, bookVars, crudVars>>

\* for row in result: the result has no row left and the loop ends; the
\* airport search prints its query after the loop
EndOfRows ==
    /\ pc = "rows"
    /\ block \in IteratingCells
    /\ cursor = <<>>
    /\ out' = IF block = "safe" THEN Append(out, [kind |-> "query"]) ELSE out
    /\ pc' = "leaving"
    /\ UNCHANGED <<block, conn, tx, exc, keys, cursor, delivered, engineVars, queryVars, bookVars, crudVars>>

\* reading the result raises
ReadRaises ==
    /\ pc \in {"executed", "rows"}
    /\ exc' = "read"
    /\ pc' = "leaving"
    /\ UNCHANGED <<block, conn, tx, resultVars, engineVars, queryVars, bookVars, crudVars>>

\* engine.begin(): commit when the body completed, roll back when it raised;
\* the commit itself can raise
EndTransaction ==
    /\ pc = "leaving"
    /\ block \in BeginCells
    /\ \/ exc = "none" /\ tx' = "committed" /\ exc' = exc
       \/ exc = "none" /\ tx' = "rolled back" /\ exc' = "commit"
       \/ exc # "none" /\ tx' = "rolled back" /\ exc' = exc
    /\ pc' = "closing"
    /\ UNCHANGED <<block, conn, resultVars, engineVars, queryVars, bookVars, crudVars>>

LeaveBody ==
    /\ pc = "leaving"
    /\ block \in ConnectCells
    /\ pc' = "closing"
    /\ UNCHANGED <<block, conn, tx, exc, resultVars, engineVars, queryVars, bookVars, crudVars>>

\* the with statement calls __exit__ on every way out of the body
ExitBlock ==
    /\ pc = "closing"
    /\ Close(conn, exc)
    /\ pc' = "outside"
    /\ UNCHANGED <<block, conn, tx, exc, resultVars, queryVars, bookVars, crudVars>>

EngineInit ==
    /\ acquired = [c \in ConnIds |-> 0]
    /\ released = [c \in ConnIds |-> 0]
    /\ checkedOut = {}

BlockInit ==
    /\ block = "none"
    /\ pc = "outside"
    /\ conn = 0
    /\ tx = "none"
    /\ exc = "none"
    /\ keys = <<>>
    /\ cursor = <<>>
    /\ delivered = <<>>
    /\ out = <<>>

BlockNext ==
    \/ EnterBlock
    \/ ConnectFails
    \/ ExecuteReturns
    \/ ExecuteRaises
    \/ PrintHeader
    \/ ReadReturns
    \/ FetchAll
    \/ NextRow
    \/ EndOfRows
    \/ ReadRaises
    \/ EndTransaction
    \/ LeaveBody
    \/ ExitBlock

\* ------------------------------------------------------ the book search
\* the characters typed at the prompt: the letters of exit in both cases of
\* its first, and the LIKE wildcard
TitleChars == {"e", "E", "x", "i", "t", "%"}

\* what input() can return at the prompt
TitleInputs == UNION {[1..k -> TitleChars] : k \in 0..MaxTitleLen}

Book(isbn, title) == [ISBN13 |-> isbn, Title |-> title]
Store(id, storeName) == [ID |-> id, StoreName |-> storeName]
Stock(store, isbn, amount) == [StoreID |-> store, ISBN13 |-> isbn, AmountOfBooks |-> amount]

NoBooks == [Books |-> <<>>, Stores |-> <<>>, Inventory |-> <<>>]

SomeBooks ==
    [Books     |-> << Book("9780000000001", <<"E", "x", "i", "t">>),
                      Book("9780000000002", <<"t", "e", "x", "t">>),
                      Book("9780000000003", <<"t", "i", "e">>) >>,
     Stores    |-> << Store(1, "Booktopia"), Store(2, "Novel Ideas") >>,
     Inventory |-> << Stock(1, "9780000000001", 48), Stock(2, "9780000000001", 0),
                      Stock(1, "9780000000002", 71) >>]

BookDatabases == {NoBooks, SomeBooks}

exit == <<"e", "x", "i", "t">>

\* mutant: the input is compared as typed
IsExitAsTyped(t) == t = exit

\* title_search.lower() == 'exit'
IsExit(t) == LowerStr(t) = exit

\* Book.Title.ilike(f'%{title_search}%'): lower(Title) LIKE lower(:param)
TitleMatches(b, t) == Like(LowerStr(b.Title), LowerStr(<<"%">> \o t \o <<"%">>))

RECURSIVE MatchingBooks(_, _)
MatchingBooks(rows, t) ==
    IF rows = <<>> THEN <<>>
    ELSE IF TitleMatches(Head(rows), t) THEN <<Head(rows)>> \o MatchingBooks(Tail(rows), t)
    ELSE MatchingBooks(Tail(rows), t)

\* inventory.store.StoreName
StoreNameOf(data, id) == (CHOOSE st \in Range(data.Stores) : st.ID = id).StoreName

\* for inventory in book.inventory: print(Store, Amount)
RECURSIVE StoreLines(_, _, _)
StoreLines(data, inv, isbn) ==
    IF inv = <<>> THEN <<>>
    ELSE IF Head(inv).ISBN13 = isbn
         THEN <<[kind |-> "store", store |-> StoreNameOf(data, Head(inv).StoreID),
                 amount |-> Head(inv).AmountOfBooks]>> \o StoreLines(data, Tail(inv), isbn)
    ELSE StoreLines(data, Tail(inv), isbn)

BookLines(data, b, scan) ==
    <<[kind |-> "title", title |-> b.Title, isbn |-> b.ISBN13], [kind |-> "stores"]>>
        \o StoreLines(data, Scan(data.Inventory, scan), b.ISBN13) \o <<[kind |-> "blank"]>>

RECURSIVE ResultLines(_, _, _)
ResultLines(data, results, scan) ==
    IF results = <<>> THEN <<>>
    ELSE BookLines(data, Head(results), scan) \o ResultLines(data, Tail(results), scan)

\* if not results: print("No books found matching the search criteria.")
LinesOf(data, results, scan) ==
    IF results = <<>> THEN <<[kind |-> "none found"]>> ELSE ResultLines(data, results, scan)

\* what search_books prints when nothing raises
SearchOutput(data, t, scan) == LinesOf(data, MatchingBooks(Scan(data.Books, scan), t), scan)

\* the failures of the database: what str(e) shows of each
ConnectFailures == {"Login failed for user 'sa'", "Server is not found or not accessible"}

QueryFailures == {"Invalid object name 'Books'"}

LinkFailures == {"Communication link failure", "Query timeout expired"}

PendingRollback == "Can't reconnect until invalid transaction is rolled back"

NoException == "none"

\* except Exception as e: print(f"An error occurred: {e}")
ErrorLines(e) == <<[kind |-> "error", label |-> "An error occurred: ", e |-> e]>>

\* except Exception as e: print('Error while connecting to database:\n'); print(e)
ConnectErrorLines(e) ==
    <<[kind |-> "error", label |-> "Error while connecting to database:", e |-> e]>>

NoSession == [conn |-> 0, state |-> "idle"]

\* the session takes a connection from the engine for its first query and
\* keeps it: search_books calls neither commit, rollback nor close
Checkout ==
    IF session.conn = 0
    THEN /\ Fresh \in ConnIds
         /\ Acquire(Fresh)
         /\ session' = [conn |-> Fresh, state |-> "active"]
    ELSE UNCHANGED <<session, engineVars>>

\* one call of search_books from the loop: what it prints; it has no return
\* statement that gives a value, so the call evaluates to None on every path
search_books(t, e, lines) ==
    /\ title_search' = t
    /\ called' = Append(called, t)
    /\ raised' = e
    /\ printed' = lines
    /\ returned' = "None"
    /\ loopPc' = "searched"
    /\ UNCHANGED <<books, queryVars, blockVars, crudVars>>

Fails(t, e) == search_books(t, e, ErrorLines(e))

\* search_books(title_search): the query and the lazy loads succeed
SearchReturns ==
    /\ loopPc = "prompt"
    /\ session.state # "invalid"
    /\ Checkout
    /\ \E t \in TitleInputs, scan \in Scans :
          ~IsExit(t) /\ search_books(t, NoException, SearchOutput(books, t, scan))

\* the session has no connection and the engine cannot connect
SearchCannotConnect ==
    /\ loopPc = "prompt"
    /\ session.conn = 0
    /\ UNCHANGED <<session, engineVars>>
    /\ \E t \in TitleInputs, e \in ConnectFailures : ~IsExit(t) /\ Fails(t, e)

\* the server rejects the query; the connection stays with the session
SearchQueryFails ==
    /\ loopPc = "prompt"
    /\ session.state # "invalid"
    /\ Checkout
    /\ \E t \in TitleInputs, e \in QueryFailures : ~IsExit(t) /\ Fails(t, e)

\* the connection the session holds is lost during the query (the dialect
\* takes a timeout for a disconnect as well): it is invalidated and handed
\* back, and the session's transaction stays invalid
SearchDisconnected ==
    /\ loopPc = "prompt"
    /\ session.state = "active"
    /\ Close(session.conn, "disconnect")
    /\ session' = [session EXCEPT !.state = "invalid"]
    /\ \E t \in TitleInputs, e \in LinkFailures : ~IsExit(t) /\ Fails(t, e)

\* every query on a session whose transaction is invalid raises until the
\* session is rolled back, which the notebook never does
SearchPendingRollback ==
    /\ loopPc = "prompt"
    /\ session.state = "invalid"
    /\ UNCHANGED <<session, engineVars>>
    /\ \E t \in TitleInputs : ~IsExit(t) /\ Fails(t, PendingRollback)

\* if title_search.lower() == 'exit': break
ExitLoop ==
    /\ loopPc = "prompt"
    /\ \E t \in TitleInputs : IsExit(t) /\ title_search' = t
    /\ loopPc' = "ended"
    /\ UNCHANGED <<books, session, printed, called, raised, returned>>
    /\ UNCHANGED <<engineVars, queryVars, blockVars, crudVars>>

\* while True: the prompt is shown again
PromptAgain ==
    /\ loopPc = "searched"
    /\ loopPc' = "prompt"
    /\ title_search' = <<>>
    /\ printed' = <<>>
    /\ called' = <<>>
    /\ raised' = NoException
    /\ returned' = "no call"
    /\ UNCHANGED <<books, session, engineVars, queryVars, blockVars, crudVars>>

\* the connection cell has run
ConnectionCell(to, e, lines) ==
    /\ loopPc \in {"start", "connected", "not connected"}
    /\ loopPc' = to
    /\ raised' = e
    /\ printed' = lines
    /\ UNCHANGED <<books, session, title_search, called, returned>>
    /\ UNCHANGED <<engineVars, queryVars, blockVars, crudVars>>

\* engine = create_engine(url_string); with engine.connect() as connection:
\* print(f'Successfully connected to {database_name}!'); the connection is
\* handed back when the block is left
ConnectionCellConnects ==
    ConnectionCell("connected", NoException, <<[kind |-> "connected"]>>)

\* engine.connect() raises
ConnectionCellCannotConnect ==
    \E e \in ConnectFailures : ConnectionCell("not connected", e, ConnectErrorLines(e))

\* the cell of the search loop is started
StartLoop ==
    /\ loopPc \in {"connected", "not connected"}
    /\ loopPc' = "prompt"
    /\ printed' = <<>>
    /\ raised' = NoException
    /\ UNCHANGED <<books, session, title_search, called, returned>>
    /\ UNCHANGED <<engineVars, queryVars, blockVars, crudVars>>

BookInit ==
    /\ books \in BookDatabases
    /\ session = NoSession
    /\ loopPc = "start"
    /\ title_search = <<>>
    /\ printed = <<>>
    /\ called = <<>>
    /\ raised = NoException
    /\ returned = "no call"

BookNext ==
    \/ ConnectionCellConnects
    \/ ConnectionCellCannotConnect
    \/ StartLoop
    \/ SearchReturns
    \/ SearchCannotConnect
    \/ SearchQueryFails
    \/ SearchDisconnected
    \/ SearchPendingRollback
    \/ ExitLoop
    \/ PromptAgain

\* ------------------------------------------------------ the CRUD notebook
\* the tables the notebook declares in metadata_obj
user_table == "pythonUsers"

server_table == "pythonServers"

DeclaredTables == {user_table, server_table}

\* the table the notebook reflects
reflected_table == "colors"

\* the tables the database holds before the notebook is run: colors, and a
\* table the notebook never names
PreExisting == {reflected_table, "Airports"}

TableNames == DeclaredTables \cup PreExisting

\* Column("username", String(30))
UsernameWidth == 30

\* random.randint(1, 4)
RandintLow == 1
RandintHigh == 4

servers ==
    <<[servername |-> "Mario",  IP |-> "192.168.0.23"],
      [servername |-> "Luigi",  IP |-> "192.168.0.185"],
      [servername |-> "Yoshi",  IP |-> "192.168.0.15"],
      [servername |-> "Bowser", IP |-> "192.168.0.97"]>>

\* what input('Enter username:') can return: a short name, the longest the
\* column takes, and one character more
Usernames == {Word("a", n) : n \in {1, UsernameWidth, UsernameWidth + 1}}

\* ''.join(random.choice(...) for i in range(10)): ten characters
PasswordLength == 10

Passwords == {Word("x", PasswordLength)}

ColorRows ==
    <<[Name |-> "Red",  hexcode |-> "#FF0000"],
      [Name |-> "Blue", hexcode |-> "#0000FF"]>>

AirportRows == <<[IATA |-> "ARN"]>>

\* the database as the notebook finds it
StartData ==
    [tables   |-> PreExisting,
     rows     |-> [t \in TableNames |->
                      CASE t = reflected_table -> ColorRows
                        [] t = "Airports"      -> AirportRows
                        [] OTHER               -> <<>>],
     identity |-> [t \in TableNames |-> 0]]

\* metadata_obj before the declaring cell has been run
NoMetaData == [defined |-> FALSE, tables |-> {}]

\* the cell reads engine, metadata_obj or a table object before the cell that
\* assigns it has been run
Undefined == ~engine \/ ~metadata_obj.defined

\* the cell ends: with the exception e, or to its last line
Ends(c, e) ==
    /\ ran' = c
    /\ failure' = e
    /\ UNCHANGED <<queryVars, engineVars, blockVars, bookVars>>

\* the connection cell: create_engine connects to nothing, and the cell
\* catches what engine.connect() raises
CreateEngineCell ==
    /\ engine' = TRUE
    /\ Ends("connect", "none")
    /\ UNCHANGED <<metadata_obj, publictest, inserted_primary_key>>

\* metadata_obj = MetaData(); user_table = Table(...); server_table = Table(...)
DeclareCell ==
    /\ metadata_obj' = [defined |-> TRUE, tables |-> DeclaredTables]
    /\ Ends("declare", "none")
    /\ UNCHANGED <<engine, publictest, inserted_primary_key>>

\* metadata_obj.create_all(engine): CREATE TABLE for every table of the
\* metadata the database does not hold
create_all(tables, data) ==
    [tables   |-> data.tables \cup tables,
     rows     |-> [t \in TableNames |->
                      IF t \in tables \ data.tables THEN <<>> ELSE data.rows[t]],
     identity |-> [t \in TableNames |->
                      IF t \in tables \ data.tables THEN 0 ELSE data.identity[t]]]

CreateAllCell ==
    /\ IF Undefined
       THEN Ends("create_all", "NameError") /\ UNCHANGED publictest
       ELSE /\ publictest' = create_all(metadata_obj.tables, publictest)
            /\ Ends("create_all", "none")
    /\ UNCHANGED <<engine, metadata_obj, inserted_primary_key>>

\* metadata_obj.drop_all(engine): DROP TABLE for every table of the metadata
\* the database holds
drop_all(tables, data) ==
    [tables   |-> data.tables \ tables,
     rows     |-> [t \in TableNames |->
                      IF t \in tables THEN <<>> ELSE data.rows[t]],
     identity |-> [t \in TableNames |->
                      IF t \in tables THEN 0 ELSE data.identity[t]]]

DropAllCell ==
    /\ IF Undefined
       THEN Ends("drop_all", "NameError") /\ UNCHANGED publictest
       ELSE /\ publictest' = drop_all(metadata_obj.tables, publictest)
            /\ Ends("drop_all", "none")
    /\ UNCHANGED <<engine, metadata_obj, inserted_primary_key>>

\* the ids an identity column hands out for n rows
Ids(data, t, n) == [i \in 1..n |-> data.identity[t] + i]

\* n rows asked an id of table t: the ids are spent, committed or not
Spent(data, t, n) ==
    [data EXCEPT !.identity = [data.identity EXCEPT ![t] = data.identity[t] + n]]

Stored(data, t, new) ==
    [Spent(data, t, Len(new)) EXCEPT !.rows = [data.rows EXCEPT ![t] = data.rows[t] \o new]]

ServerRows(data) ==
    [i \in 1..Len(servers) |->
        [id         |-> Ids(data, server_table, Len(servers))[i],
         servername |-> servers[i].servername,
         IP         |-> servers[i].IP]]

\* with engine.begin() as conn: conn.execute(insert(server_table), servers)
InsertServersCell ==
    /\ publictest.identity[server_table] + Len(servers) <= MaxServerId
    /\ IF Undefined
       THEN Ends("insert_servers", "NameError") /\ UNCHANGED publictest
       ELSE IF server_table \notin publictest.tables
       THEN Ends("insert_servers", "ProgrammingError") /\ UNCHANGED publictest
       ELSE /\ publictest' = Stored(publictest, server_table, ServerRows(publictest))
            /\ Ends("insert_servers", "none")
    /\ UNCHANGED <<engine, metadata_obj, inserted_primary_key>>

\* the same block when the connection is lost after k of the rows were sent:
\* engine.begin() rolls the rows back, the ids they were given stay spent
InsertServersFails ==
    /\ ~Undefined
    /\ server_table \in publictest.tables
    /\ \E k \in 0..Len(servers) :
          /\ publictest.identity[server_table] + k <= MaxServerId
          /\ publictest' = Spent(publictest, server_table, k)
    /\ Ends("insert_servers", "OperationalError")
    /\ UNCHANGED <<engine, metadata_obj, inserted_primary_key>>

ServerIds(data) ==
    {data.rows[server_table][i].id : i \in DOMAIN data.rows[server_table]}

NewUser(data, username, password, server_id) ==
    <<[id        |-> data.identity[user_table] + 1,
       username  |-> username,
       password  |-> password,
       server_id |-> server_id]>>

\* what the server answers to the INSERT INTO pythonUsers
InsertError(data, username, server_id) ==
    IF user_table \notin data.tables THEN "ProgrammingError"
    ELSE IF Len(username) > UsernameWidth THEN "DataError"
    ELSE IF server_id \notin ServerIds(data) THEN "IntegrityError"
    ELSE "none"

\* with engine.begin() as conn: result = conn.execute(statement)
InsertUserCell ==
    /\ publictest.identity[user_table] < MaxUserId
    /\ \E username \in Usernames, password \in Passwords,
          server_id \in RandintLow..RandintHigh :
          IF Undefined
          THEN /\ Ends("insert_user", "NameError")
               /\ UNCHANGED <<publictest, inserted_primary_key>>
          ELSE IF InsertError(publictest, username, server_id) = "none"
          THEN /\ publictest' = Stored(publictest, user_table,
                                       NewUser(publictest, username, password, server_id))
               /\ inserted_primary_key' = publictest.identity[user_table] + 1
               /\ Ends("insert_user", "none")
          ELSE /\ Ends("insert_user", InsertError(publictest, username, server_id))
               /\ UNCHANGED inserted_primary_key
               /\ CASE InsertError(publictest, username, server_id) = "ProgrammingError" ->
                          UNCHANGED publictest
                    [] InsertError(publictest, username, server_id) = "IntegrityError" ->
                          publictest' = Spent(publictest, user_table, 1)
                    [] InsertError(publictest, username, server_id) = "DataError" ->
                          \E n \in {0, 1} : publictest' = Spent(publictest, user_table, n)
    /\ UNCHANGED <<engine, metadata_obj>>

\* reflected_table = Table("colors", metadata_obj, autoload_with=engine)
ReflectCell ==
    /\ IF Undefined
       THEN Ends("reflect", "NameError") /\ UNCHANGED metadata_obj
       ELSE IF reflected_table \in metadata_obj.tables
       THEN Ends("reflect", "none") /\ UNCHANGED metadata_obj
       ELSE IF reflected_table \in publictest.tables
       THEN /\ metadata_obj' = [metadata_obj EXCEPT !.tables = @ \cup {reflected_table}]
            /\ Ends("reflect", "none")
       ELSE Ends("reflect", "NoSuchTableError") /\ UNCHANGED metadata_obj
    /\ UNCHANGED <<engine, publictest, inserted_primary_key>>

CrudInit ==
    /\ engine = FALSE
    /\ metadata_obj = NoMetaData
    /\ publictest = StartData
    /\ ran = "none"
    /\ failure = "none"
    /\ inserted_primary_key = 0

CrudNext ==
    \/ CreateEngineCell
    \/ DeclareCell
    \/ CreateAllCell
    \/ DropAllCell
    \/ InsertServersCell
    \/ InsertServersFails
    \/ InsertUserCell
    \/ ReflectCell

\* ------------------------------------------------------ specifications
\* the notebooks are run one at a time: each specification runs one of them
\* and leaves the others as they start
Idle ==
    /\ QueryInit
    /\ db = [users |-> <<>>, airports |-> <<>>]
    /\ EngineInit
    /\ BlockInit
    /\ BookInit
    /\ books = NoBooks
    /\ CrudInit

Init == QueryInit /\ EngineInit /\ BlockInit /\ BookInit /\ books = NoBooks /\ CrudInit

Next == QueryNext

Spec == Init /\ [][Next]_vars

SpecBind == Init /\ [][BindNext]_vars

SpecConn == Idle /\ [][BlockNext]_vars

BooksInit ==
    /\ QueryInit
    /\ db = [users |-> <<>>, airports |-> <<>>]
    /\ EngineInit
    /\ BlockInit
    /\ BookInit
    /\ CrudInit

SpecBooks == BooksInit /\ [][BookNext]_vars

SpecCrud == Idle /\ [][CrudNext]_vars


\* ======================================================== the properties
\* the cells that pass the value through a bound parameter
ParameterizedCells == {"parameterized", "safe"}

\* the value bound in the cell on display
BoundValue == IF cell = "safe" THEN search_string ELSE name

\* the column the cell on display searches, row by row
Searched ==
    IF cell \in {"safe", "unsafe"}
    THEN [i \in 1..Len(db.airports) |-> db.airports[i].location]
    ELSE [i \in 1..Len(db.users) |-> db.users[i].FirstName]

\* the table the cell on display reads
Table == IF cell \in {"safe", "unsafe"} THEN db.airports ELSE db.users

\* the text the driver receives for safe_query
SafeText ==
    <<"SELECT_TOP10_AIRPORTS_LIKE", "'", "%", "'", "+", "?", "+", "'", "%", "'">>

\* C1: in the secured airport search the text handed to the database is the
\* same for every search string, and the search string reaches the database
\* only as the value of the one parameter.
C1_SafeTextIsFixed ==
    cell = "safe" =>
        /\ error # "StatementError"
        /\ sent.text = SafeText
        /\ sent.params = <<search_string>>

C1_Witness ==
    /\ cell = "safe"
    /\ search_string = Payload
    /\ sent.text = SafeText
    /\ sent.params = <<Payload>>

\* the structure of the batch a cell sends for a harmless value
Benign == <<"a">>

BenignShape(c) ==
    Shape(Parse(Execute(CellCall(c, Benign, Benign).T, CellCall(c, Benign, Benign).B).stmt.text))

\* C2: whatever value is bound in parameterized_query or safe_query, the
\* server runs exactly one statement, and the batch has the structure it has
\* for a harmless value: one SELECT whose LIKE operand is literal + parameter
\* + literal.
C2_OneStatementSameStructure ==
    cell \in ParameterizedCells =>
        /\ error = "none"
        /\ statements = 1
        /\ Shape(Parse(sent.text)) = BenignShape(cell)
        /\ Shape(Parse(sent.text)).kinds = <<"lit", "param", "lit">>

C2_Witness ==
    /\ cell = "parameterized"
    /\ name = Payload
    /\ statements = 1
    /\ Shape(Parse(sent.text)).kinds = <<"lit", "param", "lit">>

NoRowContains(v) == \A i \in DOMAIN Searched : ~Contains(Searched[i], v)

\* C3: with ';-- bound, parameterized_query and safe_query return no row
\* whenever no row's searched column contains ';-- literally.
C3_PayloadFindsNothing ==
    (cell \in ParameterizedCells /\ BoundValue = Payload /\ NoRowContains(Payload)) =>
        (error = "none" /\ result = <<>>)

C3_Witness ==
    /\ cell = "safe"
    /\ search_string = Payload
    /\ db.airports = FewAirports
    /\ NoRowContains(Payload)
    /\ result = <<>>

\* C4: in the unfixed airport search the search string ';-- selects all rows
\* of the airports table.
C4_UnsafePayloadSelectsAll ==
    (cell = "unsafe" /\ search_string = Payload) =>
        (error = "none" /\ Range(result) = Range(db.airports))

\* the rows of the table on display whose searched column contains v
RowsContaining(v) == {Table[i] : i \in {j \in DOMAIN Table : Contains(Searched[j], v)}}

\* C5 as stated: for every bound value the rows returned are exactly the
\* rows whose searched column contains the value.
C5_ExactlyTheRowsContaining ==
    cell \in ParameterizedCells => Range(result) = RowsContaining(BoundValue)

Lower(s) == [i \in 1..Len(s) |-> IF s[i] = "A" THEN "a" ELSE s[i]]

\* the rows whose searched column contains v, letters compared without
\* regard to case
RowsContainingFolded(v) ==
    {Table[i] : i \in {j \in DOMAIN Table : Contains(Lower(Searched[j]), Lower(v))}}

Least(a, b) == IF a < b THEN a ELSE b

\* C5 as amended: for every bound value without a LIKE wildcard, the rows
\* returned contain the value (letters compared without regard to case);
\* parameterized_query returns all of them, safe_query all of them up to ten.
C5_RowsContainingUpToTop ==
    (cell \in ParameterizedCells /\ "%" \notin Range(BoundValue)) =>
        /\ error = "none"
        /\ Range(result) \subseteq RowsContainingFolded(BoundValue)
        /\ Cardinality(Range(result)) = Len(result)
        /\ cell = "parameterized" => Range(result) = RowsContainingFolded(BoundValue)
        /\ cell = "safe" =>
              Len(result) = Least(Top10, Cardinality(RowsContainingFolded(BoundValue)))

C5_Witness ==
    /\ cell = "safe"
    /\ search_string = <<"a">>
    /\ Cardinality(RowsContainingFolded(search_string)) > Top10
    /\ Len(result) = Top10
    /\ \E i \in DOMAIN result : ~Contains(result[i].location, search_string)

\* C8: executing the same read-only query object again, with the same
\* binding and against unchanged data, yields the same rows in the same
\* order.
C8_SameRowsSameOrder ==
    (reran /\ cell \in {"fetchall", "iterate", "parameterized"}) => result = prev

\* the bindings the driver receives, each with the name of its marker
Carried == {<<BindSeq(statement)[i], sent.params[i]>> : i \in DOMAIN sent.params}

\* C9: when the names of the binding map are the bound parameters of the
\* text, the call succeeds and the driver receives exactly the map's
\* bindings, every value as it was passed.
C9_MatchingNamesBind ==
    (cell = "execute" /\ BindNames(statement) = DOMAIN parameters) =>
        /\ error = "none"
        /\ Len(sent.params) = Len(BindSeq(statement))
        /\ Carried = {<<k, parameters[k]>> : k \in DOMAIN parameters}

C9_Witness ==
    /\ cell = "execute"
    /\ statement = safe_query
    /\ DOMAIN parameters = {"search_string"}
    /\ parameters["search_string"] = <<"'">>
    /\ sent.params = << <<"'">> >>

\* C10: when the binding map has a name that is no bound parameter of the
\* text, or the text has a bound parameter the map has no entry for, the
\* call fails and no statement is sent.
C10_MismatchFails ==
    (cell = "execute" /\ BindNames(statement) # DOMAIN parameters) =>
        (error = "StatementError" /\ sent = NoStmt /\ statements = 0)

\* C6: the connection a with-block acquires is released exactly once when
\* the block is left, whether the body completed or conn.execute or the
\* reading of the result raised; inside the block it is held.
C6_ReleasedExactlyOnce ==
    /\ \A c \in ConnIds : released[c] <= acquired[c] /\ acquired[c] <= 1
    /\ pc = "outside" => checkedOut = {} /\ \A c \in Used : released[c] = 1
    /\ pc # "outside" => conn \in checkedOut /\ released[conn] = 0 /\ acquired[conn] = 1

C6_Witness ==
    /\ pc = "outside"
    /\ \E c \in Used : released[c] = 1
    /\ exc = "execute"
    /\ released[conn] = 1
    /\ Cardinality(Used) = 2

\* C7: every database access of the book search runs on a connection that
\* is released before search_books returns: no connection is held while the
\* loop waits at the prompt or after the loop has ended.
C7_NoConnectionBetweenSearches ==
    loopPc \in {"prompt", "searched", "ended"} => checkedOut = {}

\* the names that follow a colon outside quoted string literals: a quote
\* opens a literal and the next quote closes it
RECURSIVE NamesOutsideQuotes(_, _, _)
NamesOutsideQuotes(T, i, quoted) ==
    IF i > Len(T) THEN {}
    ELSE IF T[i] = "'" THEN NamesOutsideQuotes(T, i + 1, ~quoted)
    ELSE IF ~quoted /\ T[i] = ":" /\ i + 1 <= Len(T) /\ IsWord(T[i + 1])
         THEN {T[i + 1]} \cup NamesOutsideQuotes(T, i + 2, quoted)
    ELSE NamesOutsideQuotes(T, i + 1, quoted)

\* C18: the bound parameters of a text are exactly the names that follow a
\* colon outside quoted string literals: {first_name} for
\* parameterized_query, {search_string} for safe_query, and a colon-name
\* inside a quoted literal is no bound parameter.
C18_PlaceholdersOutsideQuotes ==
    /\ BindNames(parameterized_query) = {"first_name"}
    /\ BindNames(safe_query) = {"search_string"}
    /\ cell # "idle" => BindNames(statement) = NamesOutsideQuotes(statement, 1, FALSE)

\* C19: in the unfixed airport search a search string '; <statement>; --
\* makes the text sent hold two statements: the SELECT, its literal closed
\* by the injected quote, and the injected statement; the rest of the
\* original text is commented out.
C19_InjectionAddsAStatement ==
    (cell = "unsafe" /\ search_string \in Injections) =>
        /\ error = "none"
        /\ sent.text = <<"SELECT_TOP10_AIRPORTS_LIKE", "'", "%">> \o search_string \o <<"%", "'">>
        /\ Parse(sent.text).ok
        /\ Parse(sent.text).head = "SELECT_TOP10_AIRPORTS_LIKE"
        /\ Parse(sent.text).terms = <<[kind |-> "lit", chars |-> <<"%">>]>>
        /\ Parse(sent.text).injected = 1
        /\ statements = 2

C19_Witness ==
    /\ cell = "unsafe"
    /\ search_string = Injection(<<"a", "A">>)
    /\ statements = 2
    /\ Parse(sent.text).injected = 1

\* the lines that report a failure
ErrorReports == {printed[i] : i \in {j \in DOMAIN printed : printed[j].kind = "error"}}

\* the class of a failure: connection errors are an unreachable host, a
\* failed authentication, a timeout; query errors are what the server
\* rejects
ClassOf(e) ==
    IF e \in ConnectFailures \cup LinkFailures THEN "ConnectionError"
    ELSE IF e \in QueryFailures THEN "QueryError"
    ELSE "neither"

\* the class a report gives its failure: what it says besides the message
ReportedClass(line) ==
    IF line.label = "Error while connecting to database:" THEN "ConnectionError"
    ELSE "unclassified"

\* C11: every failure of a database operation is reported as a connection
\* error or as a query error, whichever it is, and the report keeps the
\* message of the underlying error; in the connection cell and in
\* search_books.
C11_FailuresClassified ==
    raised # NoException =>
        /\ ErrorReports # {}
        /\ \A line \in ErrorReports :
              /\ line.e = raised
              /\ ReportedClass(line) \in {"ConnectionError", "QueryError"}
              /\ ReportedClass(line) = ClassOf(raised)

\* C12: a failure inside search_books comes back to the caller as a value of
\* its own, different from what a search that succeeded returns, and
\* search_books prints nothing about it.
C12_FailureIsReturned ==
    (loopPc = "searched" /\ raised # NoException) =>
        /\ returned # "None"
        /\ ErrorReports = {}

\* C13: after a search the loop prompts again, and a search is not made to
\* fail by a search that failed before it: it fails only for a failure of
\* its own, and it prints what the query finds otherwise.
C13_FailedSearchLeavesNoTrace ==
    loopPc = "searched" =>
        /\ ENABLED PromptAgain
        /\ raised \in {NoException} \cup ConnectFailures \cup QueryFailures \cup LinkFailures
        /\ raised = NoException =>
              \E scan \in Scans : printed = SearchOutput(books, title_search, scan)

\* 'exit' in any letter case
AnyCaseExit(t) ==
    /\ Len(t) = 4
    /\ t[1] \in {"e", "E"}
    /\ t[2] \in {"x", "X"}
    /\ t[3] \in {"i", "I"}
    /\ t[4] \in {"t", "T"}

\* C16: the loop ends exactly on 'exit' in any letter case, which is never
\* passed to search_books; every other input, the empty string too, is
\* passed to search_books exactly once and a new prompt follows.
C16_LoopEndsOnExitOnly ==
    /\ [](loopPc = "ended" => (AnyCaseExit(title_search) /\ called = <<>>))
    /\ [](loopPc = "searched" => (~AnyCaseExit(title_search) /\ called = <<title_search>>))
    /\ [](loopPc = "prompt" => called = <<>>)
    /\ [][loopPc = "prompt" => loopPc' \in {"ended", "searched"}]_vars
    /\ [][loopPc = "searched" => loopPc' = "prompt"]_vars
    /\ [][loopPc = "ended" => loopPc' = "ended"]_vars

C16_Witness ==
    /\ loopPc = "ended"
    /\ title_search = <<"E", "x", "i", "t">>
    /\ called = <<>>

\* C14: the result of conn.execute is read (its column names, its rows)
\* only inside the with-block, while the connection that produced it is
\* out of the engine; nothing is read once the block has been left.
C14_ReadWhileOpen ==
    [][(Len(delivered') > Len(delivered) \/ Len(out') > Len(out)) =>
          /\ pc \in {"executed", "rows"}
          /\ conn \in checkedOut
          /\ released[conn] = 0]_vars

C14_Witness ==
    /\ pc = "outside"
    /\ block = "columns"
    /\ exc = "none"
    /\ Len(delivered) = 2
    /\ Len(out) = 3
    /\ released[conn] = 1

\* C15: a result is read in one pass: reading moves rows from the result to
\* the reader, each once and in order; reading the column names moves none;
\* a result with no row left yields none; rows come into a result only by
\* conn.execute; a loop or fetchall that completed has left no row.
C15_SinglePass ==
    /\ [][pc = "rows" => delivered' \o cursor' = delivered \o cursor]_vars
    /\ [][pc = "executed" => (cursor' = cursor /\ delivered' = delivered)]_vars
    /\ [][(pc = "rows" /\ cursor = <<>>) => delivered' = delivered]_vars
    /\ [][Len(delivered') + Len(cursor') > Len(delivered) + Len(cursor) => pc = "entered"]_vars
    /\ []((pc = "leaving" /\ exc = "none") => cursor = <<>>)

C15_Witness ==
    /\ block = "columns"
    /\ pc = "leaving"
    /\ exc = "none"
    /\ Len(delivered) = 2
    /\ cursor = <<>>
    /\ Len(out) = 3

\* the cells that print a result as a table
TableCells == {"columns", "fetch_data"}

\* a printed cell without the spaces at its end
RECURSIVE Strip(_)
Strip(s) ==
    IF s # <<>> /\ s[Len(s)] = " " THEN Strip(SubSeq(s, 1, Len(s) - 1)) ELSE s

\* C17: in the cells that print a table the header names the columns of the
\* result in their order, and the i-th field of every printed row is the
\* value of the i-th column: none dropped, doubled or moved.
C17_HeaderAndRowsAligned ==
    (block \in TableCells /\ out # <<>>) =>
        /\ out[1].kind = "header"
        /\ Len(out[1].cells) = Len(keys)
        /\ \A j \in DOMAIN keys : Upper(Strip(out[1].cells[j])) = Upper(keys[j])
        /\ Len(out) = 1 + Len(delivered)
        /\ \A i \in DOMAIN delivered :
              /\ out[i + 1].kind = "row"
              /\ Len(out[i + 1].cells) = Len(keys)
              /\ \A j \in DOMAIN keys : Strip(out[i + 1].cells[j]) = Str(delivered[i][j])

C17_Witness ==
    /\ block = "fetch_data"
    /\ pc = "outside"
    /\ exc = "none"
    /\ Len(delivered) = 2
    /\ delivered[1] # delivered[2]
    /\ Len(out) = 3

\* c is v, followed by spaces up to the width W when v is shorter than W
Padded(c, v, W) ==
    /\ Len(c) = IF Len(v) >= W THEN Len(v) ELSE W
    /\ SubSeq(c, 1, Len(v)) = v
    /\ \A q \in (Len(v) + 1)..Len(c) : c[q] = " "

\* C20: ljust(W) keeps the value whole: the printed cell starts with the
\* value, has spaces after it up to W characters when the value is shorter,
\* and is the value when the value has W characters or more.
C20_LjustKeepsValue ==
    /\ (block \in TableCells /\ out # <<>>) =>
          /\ \A j \in DOMAIN keys : Padded(out[1].cells[j], Upper(keys[j]), FieldWidth)
          /\ \A i \in DOMAIN delivered : \A j \in DOMAIN keys :
                Padded(out[i + 1].cells[j], Str(delivered[i][j]), FieldWidth)
    /\ block = "safe" =>
          \A i \in DOMAIN delivered :
              /\ Padded(out[i + 1].cells[1], delivered[i][1].v, IataWidth)
              /\ Padded(out[i + 1].cells[2], delivered[i][2].v, NameWidth)
              /\ out[i + 1].cells[3] = delivered[i][3].v

C20_Witness ==
    /\ block = "safe"
    /\ Len(delivered) = 2
    /\ Len(delivered[1][2].v) > NameWidth
    /\ Len(delivered[2][1].v) < IataWidth
    /\ Len(out[2].cells[2]) > NameWidth
    /\ Len(out[3].cells[1]) = IataWidth

\* C21: for every search string without a single quote, the unfixed airport
\* search returns what the secured airport search returns on the same data:
\* no error, and the same rows.
C21_UnsafeReturnsWhatSafeReturns ==
    (cell = "unsafe" /\ "'" \notin Range(search_string)) =>
        \E scan \in Scans :
            /\ error = Outcome(SafeCall(search_string), db, scan).error
            /\ result = Outcome(SafeCall(search_string), db, scan).rows

\* C22: in whatever order the cells of the CRUD notebook are run, a run of
\* the "Drop all metadata tables" cell leaves every table other than
\* pythonUsers and pythonServers as it was: still there, with the same rows.
C22_DropAllKeepsOtherTables ==
    [][ran' = "drop_all" =>
          \A t \in TableNames \ DeclaredTables :
              /\ (t \in publictest'.tables) = (t \in publictest.tables)
              /\ publictest'.rows[t] = publictest.rows[t]]_vars

\* the declared tables exist and the "Insert server data" cell has been run
\* to its end since they were created: no cell removes a row but by dropping
\* the table, so pythonServers then holds rows
ServersInserted ==
    /\ DeclaredTables \subseteq publictest.tables
    /\ publictest.rows[server_table] # <<>>

\* C23: a run of the "Insert user data" cell, when the tables exist and the
\* servers were inserted since they were created, adds one user whose
\* server_id is the id of a row of pythonServers; otherwise it fails and adds
\* no row.
C23_UserReferencesAServer ==
    [][ran' = "insert_user" =>
          IF ServersInserted
          THEN /\ failure' = "none"
               /\ Len(publictest'.rows[user_table]) = Len(publictest.rows[user_table]) + 1
               /\ \A i \in DOMAIN publictest'.rows[user_table] :
                     publictest'.rows[user_table][i].server_id \in ServerIds(publictest')
          ELSE /\ failure' # "none"
               /\ publictest'.rows = publictest.rows]_vars

\* the books whose title contains the search term, letters compared without
\* regard to case
BooksContaining(t) ==
    {b \in Range(books.Books) : Contains(LowerStr(b.Title), LowerStr(t))}

\* the inventory rows of a book as the lines that show them
StockOf(b) ==
    {[kind |-> "store", store |-> StoreNameOf(books, r.StoreID), amount |-> r.AmountOfBooks] :
        r \in {x \in Range(books.Inventory) : x.ISBN13 = b.ISBN13}}

TitleLine(b) == [kind |-> "title", title |-> b.Title, isbn |-> b.ISBN13]

\* the places of the output where the title line of b stands
TitleLinesOf(b) == {i \in DOMAIN printed : printed[i] = TitleLine(b)}

\* the store lines that follow the title line at i, up to the next blank line
StoreLinesAfter(i) ==
    {printed[j] : j \in {k \in (i + 1)..Len(printed) :
                            /\ printed[k].kind = "store"
                            /\ \A m \in (i + 1)..k : printed[m].kind # "blank"}}

=============================================================================
